---- MODULE Spec2Model ----
(***************************************************************************)
(* Model of picam's Display (display.cpp / display.h): the pixel-format    *)
(* converter convertToRGB, the letterbox geometry, and Display::update,    *)
(* Display::processEvents.                                                 *)
(*                                                                         *)
(* Bytes are integers 0..255, buffers are sequences indexed from 1 (the    *)
(* C++ index i is element i+1).  A float is a record [m, e] standing for   *)
(* m * 2^e with 2^23 <= |m| < 2^24 (or m = 0): IEEE-754 binary32 without   *)
(* the exponent range, which the values here never leave.                  *)
(***************************************************************************)
EXTENDS Integers, Sequences, FiniteSets, TLC

VARIABLES
    rgb_buffer,            \* Impl::rgb_buffer
    texture,               \* image of the texture object texture_id
    current_frame_header,  \* Impl::current_frame_header
    image_aspect_ratio,    \* Impl::image_aspect_ratio
    vbo,                   \* the 16 floats of the vertex buffer object
    framebuffer,           \* the framebuffer size last read from the window
    should_close,          \* the window's close flag (glfwWindowShouldClose)
    pc,                    \* where the program is
    last_frame,            \* the frame handed to the last convertToRGB / update
    access,                \* memory accesses of the last convertToRGB
    gl_log,                \* calls issued by the last update or cleanup, in order
    updates,               \* number of calls of update so far
    before,                \* Impl's fields when the last update was entered
    sizing,                \* length computation of the last resize (SpecSize)
    handles,               \* Impl's window, texture_id, vao, vbo, shader_program
    live,                  \* what the window system and the context hold
    allocated,             \* what was ever created for this Display
    released,              \* release calls issued so far, in order
    stage,                 \* the step at which construction stopped
    draws,                 \* glDrawArrays calls issued so far
    swaps,                 \* glfwSwapBuffers calls issued so far
    sized                  \* size of the most recent frame with pixels

vars == <<rgb_buffer, texture, current_frame_header, image_aspect_ratio, vbo,
          framebuffer, should_close, pc, last_frame, access, gl_log, updates,
          before, sizing, handles, live, allocated, released, stage, draws,
          swaps, sized>>

\* the variables of construction and teardown
lifeVars == <<handles, live, allocated, released, stage>>

\* the variables that count and remember across updates
passVars == <<draws, swaps, sized>>

-----------------------------------------------------------------------------
(* Bounds of the model *)

MaxWidth == 2
MaxHeight == 2
MaxPad == 1
MaxSeed == 1
MaxFb == 1
MaxUpdates == 2
MaxSurface == 4
MaxImage == 4

-----------------------------------------------------------------------------
(* Natural numbers beyond the model checker's 32-bit integers: sequences of *)
(* base-4096 digits, least significant first.                               *)

RECURSIVE BN(_)
BN(n) ==
    IF n = 0 THEN <<>> ELSE <<n % 4096>> \o BN(n \div 4096)

RECURSIVE BNNorm(_)
BNNorm(a) ==
    IF a = <<>> THEN <<>>
    ELSE IF a[Len(a)] = 0 THEN BNNorm(SubSeq(a, 1, Len(a) - 1))
    ELSE a

RECURSIVE BNAdd(_, _, _)
BNAdd(a, b, carry) ==
    IF a = <<>> /\ b = <<>> THEN (IF carry = 0 THEN <<>> ELSE <<carry>>)
    ELSE LET x == IF a = <<>> THEN 0 ELSE Head(a)
             y == IF b = <<>> THEN 0 ELSE Head(b)
             s == x + y + carry
         IN  <<s % 4096>> \o BNAdd(IF a = <<>> THEN <<>> ELSE Tail(a),
                                   IF b = <<>> THEN <<>> ELSE Tail(b),
                                   s \div 4096)

\* a * k + carry, for 0 <= k < 2^18
RECURSIVE BNMulSmall(_, _, _)
BNMulSmall(a, k, carry) ==
    IF a = <<>> THEN BN(carry)
    ELSE LET p == Head(a) * k + carry
         IN  <<p % 4096>> \o BNMulSmall(Tail(a), k, p \div 4096)

RECURSIVE BNMul(_, _)
BNMul(a, b) ==
    IF b = <<>> THEN <<>>
    ELSE BNAdd(BNMulSmall(a, Head(b), 0), <<0>> \o BNMul(a, Tail(b)), 0)

RECURSIVE BNShl(_, _)
BNShl(a, k) ==
    IF k = 0 THEN a
    ELSE IF k >= 12 THEN BNShl(<<0>> \o a, k - 12)
    ELSE BNShl(BNMulSmall(a, 2, 0), k - 1)

BNEq(a, b) == BNNorm(a) = BNNorm(b)

RECURSIVE BNLeqN(_, _)
BNLeqN(a, b) ==
    IF Len(a) # Len(b) THEN Len(a) < Len(b)
    ELSE IF a = <<>> THEN TRUE
    ELSE IF a[Len(a)] # b[Len(b)] THEN a[Len(a)] < b[Len(b)]
    ELSE BNLeqN(SubSeq(a, 1, Len(a) - 1), SubSeq(b, 1, Len(b) - 1))

BNLeq(a, b) == BNLeqN(BNNorm(a), BNNorm(b))

-----------------------------------------------------------------------------
(* binary32 arithmetic: static_cast<float>(int), operator/, operator>       *)

\* static_cast<float>(n) for 0 <= n < 2^24, which is exact
IntToFloat(n) ==
    IF n = 0 THEN [m |-> 0, e |-> 0]
    ELSE LET k == CHOOSE j \in 0..23 : n * 2^j >= 8388608 /\ n * 2^j < 16777216
         IN  [m |-> n * 2^k, e |-> 0 - k]

\* `bits` (at most 7) more quotient bits of qr.r / d, after the quotient qr.q
DivStep(qr, d, bits) ==
    [q |-> qr.q * 2^bits + ((qr.r * 2^bits) \div d), r |-> (qr.r * 2^bits) % d]

\* k (23 or 24) more quotient bits of r / d, after the quotient q so far
LongDiv(q, r, d, k) ==
    DivStep(DivStep(DivStep(DivStep([q |-> q, r |-> r], d, 7), d, 7), d, 7),
            d, k - 21)

\* round to nearest, ties to even, of the quotient qr.q with remainder qr.r of d
RoundNearestEven(qr, d, e) ==
    LET up == (2 * qr.r > d) \/ (2 * qr.r = d /\ qr.q % 2 = 1)
        q  == IF up THEN qr.q + 1 ELSE qr.q
    IN  IF q = 16777216 THEN [m |-> 8388608, e |-> e + 1] ELSE [m |-> q, e |-> e]

\* a / b in binary32, for a, b > 0
FDiv(a, b) ==
    IF a.m >= b.m
    THEN RoundNearestEven(LongDiv(1, a.m - b.m, b.m, 23), b.m, a.e - b.e - 23)
    ELSE RoundNearestEven(LongDiv(0, a.m, b.m, 24), b.m, a.e - b.e - 24)

\* a > b in binary32, for a, b > 0
FGreater(a, b) ==
    (a.e > b.e) \/ (a.e = b.e /\ a.m > b.m)

FNeg(a) == [m |-> 0 - a.m, e |-> a.e]

FOne == IntToFloat(1)

FZero == IntToFloat(0)

-----------------------------------------------------------------------------
(* Frames *)

\* libcamera::formats::RGB888 and ::YUYV, and two tags that are neither
FormatRGB888 == "RGB888"

FormatYUYV == "YUYV"

\* the tag of a value-initialized header (0)
FormatNone == "NONE"

UnknownFormats == {"MJPEG", FormatNone}

Formats == {FormatRGB888, FormatYUYV} \cup UnknownFormats

\* bytes of a row of `width` pixels in the source encoding
PackedRow(format, width) ==
    IF format = FormatRGB888 THEN width * 3
    ELSE IF format = FormatYUYV THEN width * 2
    ELSE 0

\* a function on 1..n as the sequence of its values
Bytes(f) == f \o <<>>

\* the k-th byte (from 0) of the pixel buffer number `seed`
PixelByte(seed, k) == (seed * 97 + k * 41 + 16) % 256

\* ImageFrame: header {pitch, size, format} and the span of pixels, which holds
\* pitch * height bytes
MakeFrame(format, width, height, pad, seed) ==
    LET pitch == PackedRow(format, width) + pad
    IN  [format |-> format, width |-> width, height |-> height, pitch |-> pitch,
         pixels |-> Bytes([k \in 1..(pitch * height) |-> PixelByte(seed, k - 1)])]

Header(frame) ==
    [pitch |-> frame.pitch, width |-> frame.width, height |-> frame.height,
     format |-> frame.format]

Frames ==
    { MakeFrame(f, w, h, p, s) :
        f \in Formats, w \in 0..MaxWidth, h \in 0..MaxHeight,
        p \in 0..MaxPad, s \in 0..MaxSeed }

-----------------------------------------------------------------------------
(* convertToRGB *)

\* std::vector<std::uint8_t>::resize(n): keeps the first elements, zero-fills
Resize(v, n) ==
    Bytes([k \in 1..n |-> IF k <= Len(v) THEN v[k] ELSE 0])

\* The memory of one conversion: the vector, the source indices read, the
\* vector indices written through a pointer or reference, and the indices
\* handed to std::vector::operator[].
NewMem(rgb) ==
    [rgb |-> rgb, reads |-> {}, writes |-> {}, subscripts |-> {}]

\* src[i]: a read beyond the span yields whatever is there
Load(frame, i, garbage) ==
    IF i < Len(frame.pixels) THEN frame.pixels[i + 1] ELSE garbage

\* p[i] = v through a raw pointer into the vector's storage: a write beyond
\* the storage lands in other memory and leaves the vector as it is
Store(mem, i, v) ==
    [mem EXCEPT !.rgb = IF i < Len(@) THEN [@ EXCEPT ![i + 1] = v] ELSE @,
                !.writes = @ \cup {i}]

Subscript(mem, i) ==
    [mem EXCEPT !.subscripts = @ \cup {i}]

Touch(mem, i) ==
    [mem EXCEPT !.reads = @ \cup {i}]

\* std::memcpy(&rgb_data[dst], &src[from], n): bytes k..n-1
RECURSIVE Memcpy(_, _, _, _, _, _, _)
Memcpy(mem, frame, dst, from, k, n, garbage) ==
    IF k >= n THEN mem
    ELSE Memcpy(Store(Touch(mem, from + k), dst + k, Load(frame, from + k, garbage)),
                frame, dst, from, k + 1, n, garbage)

\* CopyRows reading the source as if its rows were packed (pitch = width * 3)
RECURSIVE CopyRowsPacked(_, _, _, _)
CopyRowsPacked(mem, frame, y, garbage) ==
    IF y >= frame.height THEN mem
    ELSE CopyRowsPacked(Memcpy(Subscript(mem, y * frame.width * 3), frame,
                               y * frame.width * 3, y * frame.width * 3, 0,
                               frame.width * 3, garbage),
                        frame, y + 1, garbage)

\* rows y..height-1 of the RGB888 branch
RECURSIVE CopyRows(_, _, _, _)
CopyRows(mem, frame, y, garbage) ==
    IF y >= frame.height THEN mem
    ELSE CopyRows(Memcpy(Subscript(mem, y * frame.width * 3), frame,
                         y * frame.width * 3, y * frame.pitch, 0,
                         frame.width * 3, garbage),
                  frame, y + 1, garbage)

\* x >> 8 on a two's complement int (arithmetic shift)
Shr8(x) ==
    IF x >= 0 THEN x \div 256 ELSE (0 - 1) - (((0 - 1) - x) \div 256)

\* std::clamp(x, 0, 255)
Clamp(x) ==
    IF x < 0 THEN 0 ELSE IF x > 255 THEN 255 ELSE x

YuvRed(c, d, e) == Clamp(Shr8(298 * c + 409 * e + 128))

YuvGreen(c, d, e) == Clamp(Shr8(298 * c - 100 * d - 208 * e + 128))

YuvBlue(c, d, e) == Clamp(Shr8(298 * c + 516 * d + 128))

\* ConvertPair computing the second pixel from the luma of the first
ConvertPairOneLuma(mem, frame, row, rgb_row, x, garbage) ==
    LET y0 == Load(frame, row + x * 2, garbage)
        u  == Load(frame, row + x * 2 + 1, garbage)
        y1 == Load(frame, row + x * 2 + 2, garbage)
        v  == Load(frame, row + x * 2 + 3, garbage)
        c0 == y0 - 16
        c1 == y0 - 16
        d  == u - 128
        e  == v - 128
        m0 == Touch(Touch(Touch(Touch(mem, row + x * 2), row + x * 2 + 1),
                          row + x * 2 + 2), row + x * 2 + 3)
        m1 == Store(m0, rgb_row + x * 3, YuvRed(c0, d, e))
        m2 == Store(m1, rgb_row + x * 3 + 1, YuvGreen(c0, d, e))
        m3 == Store(m2, rgb_row + x * 3 + 2, YuvBlue(c0, d, e))
        m4 == Store(m3, rgb_row + (x + 1) * 3, YuvRed(c1, d, e))
        m5 == Store(m4, rgb_row + (x + 1) * 3 + 1, YuvGreen(c1, d, e))
    IN  Store(m5, rgb_row + (x + 1) * 3 + 2, YuvBlue(c1, d, e))

\* one pass of the inner YUYV loop: the pixel pair at x of the row at `row`
\* (source offset) and `rgb_row` (vector offset)
ConvertPair(mem, frame, row, rgb_row, x, garbage) ==
    LET y0 == Load(frame, row + x * 2, garbage)
        u  == Load(frame, row + x * 2 + 1, garbage)
        y1 == Load(frame, row + x * 2 + 2, garbage)
        v  == Load(frame, row + x * 2 + 3, garbage)
        c0 == y0 - 16
        c1 == y1 - 16
        d  == u - 128
        e  == v - 128
        m0 == Touch(Touch(Touch(Touch(mem, row + x * 2), row + x * 2 + 1),
                          row + x * 2 + 2), row + x * 2 + 3)
        m1 == Store(m0, rgb_row + x * 3, YuvRed(c0, d, e))
        m2 == Store(m1, rgb_row + x * 3 + 1, YuvGreen(c0, d, e))
        m3 == Store(m2, rgb_row + x * 3 + 2, YuvBlue(c0, d, e))
        m4 == Store(m3, rgb_row + (x + 1) * 3, YuvRed(c1, d, e))
        m5 == Store(m4, rgb_row + (x + 1) * 3 + 1, YuvGreen(c1, d, e))
    IN  Store(m5, rgb_row + (x + 1) * 3 + 2, YuvBlue(c1, d, e))

RECURSIVE ConvertRow(_, _, _, _, _, _)
ConvertRow(mem, frame, row, rgb_row, x, garbage) ==
    IF x >= frame.width THEN mem
    ELSE ConvertRow(ConvertPair(mem, frame, row, rgb_row, x, garbage),
                    frame, row, rgb_row, x + 2, garbage)

\* rows y..height-1 of the YUYV branch
RECURSIVE ConvertRows(_, _, _, _)
ConvertRows(mem, frame, y, garbage) ==
    IF y >= frame.height THEN mem
    ELSE ConvertRows(ConvertRow(Subscript(mem, y * frame.width * 3), frame,
                                y * frame.pitch, y * frame.width * 3, 0, garbage),
                     frame, y + 1, garbage)

\* the magenta fill from index i on: rgb_data[i], [i + 1], [i + 2]
RECURSIVE FillMagenta(_, _)
FillMagenta(mem, i) ==
    IF i >= Len(mem.rgb) THEN mem
    ELSE FillMagenta(
            Store(Subscript(
                Store(Subscript(
                    Store(Subscript(mem, i), i, 255),
                    i + 1), i + 1, 0),
                i + 2), i + 2, 255),
            i + 3)

\* width * height * 3 as the code computes it, for sizes whose product an int
\* holds (the frames of Frames)
ResizeLength(frame) == frame.width * frame.height * 3

convertToRGB(frame, rgb_data, garbage) ==
    LET mem == NewMem(Resize(rgb_data, ResizeLength(frame)))
    IN  IF frame.format = FormatRGB888 THEN CopyRows(mem, frame, 0, garbage)
        ELSE IF frame.format = FormatYUYV THEN ConvertRows(mem, frame, 0, garbage)
        ELSE FillMagenta(mem, 0)

\* The conversion left defined behaviour: it read outside the span, wrote
\* outside the vector, or subscripted the vector at or beyond its size.
Undefined(frame, mem) ==
    \/ \E i \in mem.reads : i >= Len(frame.pixels)
    \/ \E i \in mem.writes : i >= Len(mem.rgb)
    \/ \E i \in mem.subscripts : i >= Len(mem.rgb)

Accesses(mem) ==
    [reads |-> mem.reads, writes |-> mem.writes, subscripts |-> mem.subscripts]

NoAccess == [reads |-> {}, writes |-> {}, subscripts |-> {}]

\* what a read outside the span may find
Garbage == {0, 255}

-----------------------------------------------------------------------------
(* uploadTexture *)

\* bytes from one row to the next in the client memory glTexImage2D reads:
\* the rows of width * 3 bytes are aligned to GL_UNPACK_ALIGNMENT, which is 4
\* unless glPixelStorei changes it, and nothing here calls glPixelStorei
UnpackStride(width) == ((width * 3 + 3) \div 4) * 4

\* glTexImage2D(..., size.width, size.height, ..., GL_RGB, GL_UNSIGNED_BYTE,
\* rgb_data): the image of the texture, read row by row from the client
\* memory at rgb_data; a read beyond the vector yields whatever is there
uploadTexture(rgb_data, width, height, garbage) ==
    [width |-> width, height |-> height,
     pixels |->
        Bytes([k \in 1..(width * height * 3) |->
            LET at == ((k - 1) \div (width * 3)) * UnpackStride(width)
                        + ((k - 1) % (width * 3))
            IN  IF at < Len(rgb_data) THEN rgb_data[at + 1] ELSE garbage])]

\* glTexImage2D read beyond the vector
UploadUndefined(rgb_data, width, height) ==
    /\ width > 0
    /\ height > 0
    /\ (height - 1) * UnpackStride(width) + width * 3 > Len(rgb_data)

-----------------------------------------------------------------------------
(* SpecConv: convertToRGB alone, on every frame of Frames and on a vector  *)
(* that is empty or left over from a larger frame.                         *)

\* the fields of Impl that an update reads before it writes them
Snapshot ==
    [image_aspect_ratio |-> image_aspect_ratio, vbo |-> vbo,
     current_frame_header |-> current_frame_header, framebuffer |-> framebuffer]

NotResized == [overflow |-> FALSE, result |-> "none", size |-> <<>>]

LeftOver == {<<>>, Bytes([k \in 1..((MaxWidth + 1) * (MaxHeight + 1) * 3) |-> 7])}

\* Impl's handle fields as their default member initializers leave them
NoHandles ==
    [window |-> 0, texture_id |-> 0, shader_program |-> 0, vao |-> 0, vbo |-> 0]

\* no Display has been constructed
NoDisplay ==
    /\ handles = NoHandles
    /\ live = {}
    /\ allocated = {}
    /\ released = <<>>
    /\ stage = "none"

\* nothing has been drawn and no frame has been seen
NoPass ==
    /\ draws = 0
    /\ swaps = 0
    /\ sized = <<0, 0>>

Idle ==
    /\ NoDisplay
    /\ NoPass
    /\ texture = uploadTexture(<<>>, 0, 0, 0)
    /\ current_frame_header = Header(MakeFrame(FormatNone, 0, 0, 0, 0))
    /\ image_aspect_ratio = FOne
    /\ vbo = <<>>
    /\ framebuffer = <<0, 0>>
    /\ should_close = FALSE
    /\ gl_log = <<>>
    /\ updates = 0
    /\ before = Snapshot
    /\ sizing = NotResized

InitConv ==
    /\ Idle
    /\ rgb_buffer \in LeftOver
    /\ last_frame \in Frames
    /\ access = NoAccess
    /\ pc = "convert"

\* convertToRGB(last_frame, rgb_buffer); undefined behaviour either goes
\* unnoticed or ends the process (a checked operator[], a fault)
Convert ==
    /\ pc = "convert"
    /\ \E garbage \in Garbage :
         LET mem == convertToRGB(last_frame, rgb_buffer, garbage)
         IN  /\ rgb_buffer' = mem.rgb
             /\ access' = Accesses(mem)
             /\ \/ pc' = "returned"
                \/ Undefined(last_frame, mem) /\ pc' = "aborted"
    /\ UNCHANGED <<texture, current_frame_header, image_aspect_ratio, vbo,
                   framebuffer, should_close, last_frame, gl_log, updates,
                   before, sizing>>
    /\ UNCHANGED <<lifeVars, passVars>>

NextConv == Convert

SpecConv == InitConv /\ [][NextConv]_vars

\* C2: for an RGB888 frame whose pitch is at least width * 3, the vector that
\* convertToRGB returns holds, at y * width * 3 + k, the source byte at
\* y * pitch + k, for every row y and every k < width * 3; no source byte at an
\* offset k >= width * 3 of a row is read; and with pitch = width * 3 the
\* vector equals the source buffer.
C2_PackedRgbRows ==
    (pc = "returned" /\ last_frame.format = FormatRGB888) =>
        LET row   == last_frame.width * 3
            pitch == last_frame.pitch
            rows  == 0..(last_frame.height - 1)
        IN  /\ Len(rgb_buffer) = row * last_frame.height
            /\ \A y \in rows, k \in 0..(row - 1) :
                 rgb_buffer[y * row + k + 1] = last_frame.pixels[y * pitch + k + 1]
            /\ \A y \in rows, k \in row..(pitch - 1) :
                 (y * pitch + k) \notin access.reads
            /\ (pitch = row) => (rgb_buffer = last_frame.pixels)

\* a padded RGB888 frame of two rows was converted into a vector left over
\* from a larger frame
C2_Witness ==
    /\ pc = "returned"
    /\ last_frame.format = FormatRGB888
    /\ last_frame.width >= 1
    /\ last_frame.height >= 2
    /\ last_frame.pitch > last_frame.width * 3
    /\ Len(rgb_buffer) = last_frame.width * last_frame.height * 3
    /\ access.writes # {}

\* C6: for every format and every width and height, with a pitch of at least
\* the packed row and a source of pitch * height bytes, convertToRGB writes
\* only the vector's indices below width * height * 3 and reads only the
\* source's indices below pitch * height.
C6_AccessesInBounds ==
    (pc # "convert") =>
        /\ \A i \in access.writes :
             i >= 0 /\ i < last_frame.width * last_frame.height * 3
        /\ \A i \in access.reads :
             i >= 0 /\ i < last_frame.pitch * last_frame.height

-----------------------------------------------------------------------------
(* SpecPair: convertToRGB on one YUYV pixel pair (Y0, U, Y1, V), with bytes *)
(* at the ends and the middle of 0..255 and around 16, 128 and 235.         *)

Samples == {0, 1, 16, 17, 127, 128, 129, 234, 235, 254, 255}

PairFrames ==
    { [format |-> FormatYUYV, width |-> 2, height |-> 1, pitch |-> 4,
       pixels |-> <<y0, u, y1, v>>] :
        y0 \in Samples, u \in Samples, y1 \in Samples, v \in Samples }

InitPair ==
    /\ Idle
    /\ rgb_buffer = <<>>
    /\ last_frame \in PairFrames
    /\ access = NoAccess
    /\ pc = "convert"

NextPair == Convert

SpecPair == InitPair /\ [][NextPair]_vars

\* floor(n / 256) clamped to 0..255
C3_Channel(n) ==
    LET q == n \div 256
    IN  IF q < 0 THEN 0 ELSE IF q > 255 THEN 255 ELSE q

\* the pixel of a luma sample with the chroma samples u and v
C3_Pixel(luma, u, v) ==
    LET c == luma - 16
        d == u - 128
        e == v - 128
    IN  << C3_Channel(298 * c + 409 * e + 128),
           C3_Channel(298 * c - 100 * d - 208 * e + 128),
           C3_Channel(298 * c + 516 * d + 128) >>

\* C3: for a YUYV frame of even width, the two pixels of every pair
\* (Y0, U, Y1, V) are R = clamp(floor((298c + 409e + 128) / 256)),
\* G = clamp(floor((298c - 100d - 208e + 128) / 256)),
\* B = clamp(floor((298c + 516d + 128) / 256)) with c = luma - 16 of the
\* pixel's own luma and the pair's d = U - 128, e = V - 128; every byte is in
\* 0..255; (235, 128, 235, 128) gives white twice and luma 16 with
\* U = V = 128 gives black.
C3_YuyvPairs ==
    (pc = "returned" /\ last_frame.format = FormatYUYV
        /\ last_frame.width % 2 = 0) =>
        LET px == last_frame.pixels
        IN  /\ Len(rgb_buffer) = last_frame.width * last_frame.height * 3
            /\ \A k \in 1..Len(rgb_buffer) : rgb_buffer[k] \in 0..255
            /\ \A y \in 0..(last_frame.height - 1) :
               \A i \in 0..((last_frame.width \div 2) - 1) :
                 LET at  == y * last_frame.pitch + 4 * i
                     out == y * last_frame.width * 3 + 6 * i
                     y0  == px[at + 1]
                     u   == px[at + 2]
                     y1  == px[at + 3]
                     v   == px[at + 4]
                 IN  /\ SubSeq(rgb_buffer, out + 1, out + 3) = C3_Pixel(y0, u, v)
                     /\ SubSeq(rgb_buffer, out + 4, out + 6) = C3_Pixel(y1, u, v)
                     /\ (y0 = 235 /\ u = 128 /\ y1 = 235 /\ v = 128) =>
                          SubSeq(rgb_buffer, out + 1, out + 6)
                            = <<255, 255, 255, 255, 255, 255>>
                     /\ (y0 = 16 /\ u = 128 /\ v = 128) =>
                          SubSeq(rgb_buffer, out + 1, out + 3) = <<0, 0, 0>>
                     /\ (y1 = 16 /\ u = 128 /\ v = 128) =>
                          SubSeq(rgb_buffer, out + 4, out + 6) = <<0, 0, 0>>

\* a pair with two different lumas was converted, and clamping cut a channel
\* at each end
C3_Witness ==
    /\ pc = "returned"
    /\ last_frame.format = FormatYUYV
    /\ last_frame.width = 2
    /\ last_frame.pixels[1] # last_frame.pixels[3]
    /\ 298 * (last_frame.pixels[1] - 16) + 409 * (last_frame.pixels[4] - 128) + 128 < 0
    /\ 298 * (last_frame.pixels[3] - 16) + 516 * (last_frame.pixels[2] - 128) + 128
         > 255 * 256 + 255
    /\ rgb_buffer[1] = 0
    /\ rgb_buffer[6] = 255

-----------------------------------------------------------------------------
(* SpecSize: the resize of convertToRGB on headers from the whole range of *)
(* the two std::uint16_t fields.  width * height * 3 multiplies ints (the  *)
(* promoted fields); a product that an int does not hold is undefined      *)
(* behaviour.                                                              *)

\* the low 32 bits of a natural number, read as a two's complement int
WrapInt(bn) ==
    LET digit(i) == IF i <= Len(bn) THEN bn[i] ELSE 0
        top == digit(3) % 256
    IN  (IF top >= 128 THEN top - 256 ELSE top) * 16777216
            + digit(2) * 4096 + digit(1)

\* width * height * 3 without overflow
Tripled(width, height) ==
    BNNorm(BNMulSmall(BNMul(BN(width), BN(height)), 3, 0))

\* What rgb_data.resize(width * height * 3) can do.  When an int holds the
\* product the vector gets that length.  Otherwise the multiplication
\* overflows: the build wraps the product to 32 bits, and converted to
\* std::size_t a negative int exceeds max_size(), so that resize throws
\* std::length_error; or the build multiplies in a wider register; or it
\* traps.
ResizeOutcomes(width, height) ==
    LET n == Tripled(width, height)
    IN  IF BNLeq(n, BN(2147483647))
        THEN {[overflow |-> FALSE, result |-> "resized", size |-> n]}
        ELSE { IF WrapInt(n) < 0
               THEN [overflow |-> TRUE, result |-> "length_error", size |-> <<>>]
               ELSE [overflow |-> TRUE, result |-> "resized",
                     size |-> BN(WrapInt(n))],
               [overflow |-> TRUE, result |-> "resized", size |-> n],
               [overflow |-> TRUE, result |-> "trap", size |-> <<>>] }

\* values of a std::uint16_t: the ends, camera sizes, and the sizes around
\* which width * height * 3 passes 2^31 and 2^32
DimSamples ==
    {0, 1, 2, 255, 256, 720, 1280, 26754, 26755, 32767, 32768, 43691, 46340,
     46341, 65535}

SizeHeaders ==
    { [format |-> f, width |-> w, height |-> h, pitch |-> PackedRow(f, w)] :
        f \in {FormatRGB888, FormatYUYV, FormatNone}, w \in DimSamples,
        h \in DimSamples }

InitSize ==
    /\ Idle
    /\ rgb_buffer = <<>>
    /\ last_frame \in SizeHeaders
    /\ access = NoAccess
    /\ pc = "convert"

\* the resize of convertToRGB(last_frame, rgb_buffer); of the vector only
\* the length is kept, in sizing.size.  A resize that throws or traps ends
\* the conversion; after one that returns, the branches leave the length of
\* the vector as it is.
ResizeStep ==
    /\ pc = "convert"
    /\ sizing = NotResized
    /\ sizing' \in ResizeOutcomes(last_frame.width, last_frame.height)
    /\ pc' = IF sizing'.result = "resized" THEN "returned" ELSE "aborted"
    /\ UNCHANGED <<rgb_buffer, texture, current_frame_header, image_aspect_ratio,
                   vbo, framebuffer, should_close, last_frame, access, gl_log,
                   updates, before>>
    /\ UNCHANGED <<lifeVars, passVars>>

NextSize == ResizeStep

SpecSize == InitSize /\ [][NextSize]_vars

\* C5: for every header with width and height anywhere in 0..65535 and every
\* format, after the conversion returns the length of the vector is the
\* mathematical product width * height * 3.
C5_LengthIsProduct ==
    (pc = "returned" /\ sizing.result = "resized") =>
        BNEq(sizing.size,
             BNMulSmall(BNMul(BN(last_frame.width), BN(last_frame.height)), 3, 0))

-----------------------------------------------------------------------------
(* Display::Impl: setupQuad, uploadTexture, updateQuadForLetterbox, render *)

DEFAULT_WIDTH == 1280

DEFAULT_HEIGHT == 720

\* QuadVertices with the texture upside down
QuadVerticesFlipped(quad_width, quad_height) ==
    << FNeg(quad_width), quad_height,       FZero, FOne,
       FNeg(quad_width), FNeg(quad_height), FZero, FZero,
       quad_width,       FNeg(quad_height), FOne,  FZero,
       quad_width,       quad_height,       FOne,  FOne >>

\* QUAD_VERTICES of setupQuad: positions and texture coordinates
QuadVertices(quad_width, quad_height) ==
    << FNeg(quad_width), quad_height,       FZero, FZero,
       FNeg(quad_width), FNeg(quad_height), FZero, FOne,
       quad_width,       FNeg(quad_height), FOne,  FOne,
       quad_width,       quad_height,       FOne,  FZero >>

setupQuad == QuadVertices(FOne, FOne)

\* QuadExtents that always narrows the quad, without comparing the aspects
QuadExtentsNarrowed(window, ratio) ==
    LET window_aspect == FDiv(IntToFloat(window[1]), IntToFloat(window[2]))
    IN  <<FDiv(ratio, window_aspect), FOne>>

\* quad_width and quad_height of updateQuadForLetterbox, for a window that
\* is not minimized
QuadExtents(window, ratio) ==
    LET window_aspect == FDiv(IntToFloat(window[1]), IntToFloat(window[2]))
    IN  IF FGreater(window_aspect, ratio)
        THEN <<FDiv(ratio, window_aspect), FOne>>
        ELSE <<FOne, FDiv(window_aspect, ratio)>>

\* updateQuadForLetterbox writing the unit quad for a minimized window
updateQuadForLetterboxReset(window, ratio, buffer) ==
    IF window[1] = 0 \/ window[2] = 0 THEN QuadVertices(FOne, FOne)
    ELSE LET q == QuadExtents(window, ratio)
         IN  QuadVertices(q[1], q[2])

\* the vertex buffer after updateQuadForLetterbox, which reads `window` as
\* the framebuffer size
updateQuadForLetterbox(window, ratio, buffer) ==
    IF window[1] = 0 \/ window[2] = 0 THEN buffer
    ELSE LET q == QuadExtents(window, ratio)
         IN  QuadVertices(q[1], q[2])

Call(name, arg) == [call |-> name, arg |-> arg]

\* render returning after glViewport when the window is minimized
renderSkipping(window, ratio, buffer, tex) ==
    LET vertices == updateQuadForLetterbox(window, ratio, buffer)
    IN  [vbo |-> vertices,
         calls |->
            <<Call("glViewport", window)>>
            \o (IF window[1] = 0 \/ window[2] = 0 THEN <<>>
                ELSE <<Call("glClear", "black"),
                       Call("updateQuadForLetterbox", window),
                       Call("glBufferSubData", vertices),
                       Call("glDrawArrays", [texture |-> tex, vertices |-> vertices]),
                       Call("glfwSwapBuffers", "window")>>)]

\* render: the vertex buffer it leaves and the calls it makes, while the
\* window system reports `window` as the framebuffer size (to render's own
\* glfwGetFramebufferSize and to that of updateQuadForLetterbox alike)
render(window, ratio, buffer, tex) ==
    LET vertices == updateQuadForLetterbox(window, ratio, buffer)
        minimized == window[1] = 0 \/ window[2] = 0
    IN  [vbo |-> vertices,
         calls |->
            <<Call("glViewport", window), Call("glClear", "black"),
              Call("updateQuadForLetterbox", window)>>
            \o (IF minimized THEN <<>>
                ELSE <<Call("glBufferSubData", vertices)>>)
            \o <<Call("glDrawArrays", [texture |-> tex, vertices |-> vertices]),
                 Call("glfwSwapBuffers", "window")>>]

-----------------------------------------------------------------------------
(* SpecQuad: updateQuadForLetterbox alone, for windows that are not        *)
(* minimized and the aspect ratios update stores for frames of positive    *)
(* size.                                                                   *)

Surfaces ==
    ((1..MaxSurface) \X (1..MaxSurface))
        \cup {<<DEFAULT_WIDTH, DEFAULT_HEIGHT>>, <<1920, 1080>>, <<65535, 65534>>}

ImageSizes ==
    ((1..MaxImage) \X (1..MaxImage))
        \cup {<<640, 480>>, <<1920, 1080>>, <<65534, 65533>>}

InitQuad ==
    /\ rgb_buffer = <<>>
    /\ texture = uploadTexture(<<>>, 0, 0, 0)
    /\ \E size \in ImageSizes :
         /\ last_frame = MakeFrame(FormatNone, size[1], size[2], 0, 0)
         /\ current_frame_header = Header(last_frame)
         /\ image_aspect_ratio = FDiv(IntToFloat(size[1]), IntToFloat(size[2]))
    /\ vbo = setupQuad
    /\ framebuffer \in Surfaces
    /\ should_close = FALSE
    /\ NoDisplay
    /\ NoPass
    /\ pc = "render"
    /\ access = NoAccess
    /\ gl_log = <<>>
    /\ updates = 0
    /\ before = Snapshot
    /\ sizing = NotResized

\* updateQuadForLetterbox() in a window of size `framebuffer`
Letterbox ==
    /\ pc = "render"
    /\ vbo' = updateQuadForLetterbox(framebuffer, image_aspect_ratio, vbo)
    /\ pc' = "rendered"
    /\ UNCHANGED <<rgb_buffer, texture, current_frame_header, image_aspect_ratio,
                   framebuffer, should_close, last_frame, access, gl_log, updates,
                   before, sizing>>
    /\ UNCHANGED <<lifeVars, passVars>>

NextQuad == Letterbox

SpecQuad == InitQuad /\ [][NextQuad]_vars

\* quad_width and quad_height as the vertex buffer holds them (top-right vertex)
C8_QuadWidth == vbo[13]

C8_QuadHeight == vbo[14]

\* a.m * b.m * n * 2^(a.e + b.e + 128), exactly
C8_Scaled(a, b, n) ==
    BNShl(BNMulSmall(BNMul(BN(a.m), BN(b.m)), n, 0), a.e + b.e + 128)

\* |x - y| * 2^22 <= y
C8_Near(x, y) ==
    /\ BNLeq(BNShl(x, 22), BNAdd(BNShl(y, 22), y, 0))
    /\ BNLeq(BNShl(y, 22), BNAdd(BNShl(x, 22), y, 0))

C8_InUnitRange(q) ==
    q.m > 0 /\ ~FGreater(q, FOne)

\* C8 as stated: for a positive surface size and a positive image aspect
\* ratio, 0 < qw <= 1, 0 < qh <= 1, qw / qh equals
\* imageAspectRatio / surfaceAspect as exact rationals (with the stored ratio
\* or with the frame's width / height for imageAspectRatio), and exactly one
\* of qw, qh is 1 unless surfaceAspect equals imageAspectRatio (as the code
\* compares them), when both are 1.
C8_ExactLetterbox ==
    (pc = "rendered") =>
        LET qw == C8_QuadWidth
            qh == C8_QuadHeight
            window_aspect ==
                FDiv(IntToFloat(framebuffer[1]), IntToFloat(framebuffer[2]))
        IN  /\ C8_InUnitRange(qw)
            /\ C8_InUnitRange(qh)
            /\ \/ BNEq(C8_Scaled(qw, FOne, framebuffer[1]),
                       C8_Scaled(qh, image_aspect_ratio, framebuffer[2]))
               \/ BNEq(C8_Scaled(qw, IntToFloat(last_frame.height), framebuffer[1]),
                       C8_Scaled(qh, IntToFloat(last_frame.width), framebuffer[2]))
            /\ IF window_aspect = image_aspect_ratio THEN qw = FOne /\ qh = FOne
               ELSE (qw = FOne) # (qh = FOne)

\* C8, amended: 0 < qw <= 1, 0 < qh <= 1; qw / qh equals
\* imageAspectRatio / surfaceAspect up to the rounding of the two binary32
\* divisions (a relative error of at most 2^-22); and exactly one of qw, qh is
\* 1 unless the binary32 quotient of the surface width and height equals
\* imageAspectRatio, when both are 1.
C8_RoundedLetterbox ==
    (pc = "rendered") =>
        LET qw == C8_QuadWidth
            qh == C8_QuadHeight
            window_aspect ==
                FDiv(IntToFloat(framebuffer[1]), IntToFloat(framebuffer[2]))
        IN  /\ C8_InUnitRange(qw)
            /\ C8_InUnitRange(qh)
            /\ C8_Near(C8_Scaled(qw, FOne, framebuffer[1]),
                       C8_Scaled(qh, image_aspect_ratio, framebuffer[2]))
            /\ IF window_aspect = image_aspect_ratio THEN qw = FOne /\ qh = FOne
               ELSE (qw = FOne) # (qh = FOne)

\* a quad was narrowed to an extent that the division had to round
C8_Witness ==
    /\ pc = "rendered"
    /\ C8_QuadHeight = FOne
    /\ FGreater(FOne, C8_QuadWidth)
    /\ ~BNEq(C8_Scaled(C8_QuadWidth, FOne, framebuffer[1]),
             C8_Scaled(C8_QuadHeight, image_aspect_ratio, framebuffer[2]))
    /\ ~BNEq(C8_Scaled(C8_QuadWidth, IntToFloat(last_frame.height), framebuffer[1]),
             C8_Scaled(C8_QuadHeight, IntToFloat(last_frame.width), framebuffer[2]))

-----------------------------------------------------------------------------
(* Construction and teardown: what Display::Display, initWindow,          *)
(* createShaders, initGL, cleanup and ~Display create and release.        *)

\* largest name the window system or the context hands out
MaxHandle == 3

\* the non-zero names of windows and of context objects
Handles == 1..MaxHandle

Res(kind, id) == [kind |-> kind, id |-> id]

\* the resource a release call names
Target(c) ==
    CASE c.call = "glDeleteTextures"     -> Res("texture", c.arg)
      [] c.call = "glDeleteVertexArrays" -> Res("vertex array", c.arg)
      [] c.call = "glDeleteBuffers"      -> Res("buffer", c.arg)
      [] c.call = "glDeleteProgram"      -> Res("program", c.arg)
      [] c.call = "glDeleteShader"       -> Res("shader", c.arg)
      [] c.call = "glfwDestroyWindow"    -> Res("window", c.arg)
      [] OTHER                           -> Res("glfw", 0)

\* the resources that die with call c: glfwTerminate destroys what is left,
\* glfwDestroyWindow the window with the objects of its context
Dying(lv, c) ==
    CASE c.call = "glfwTerminate"     -> lv
      [] c.call = "glfwDestroyWindow" ->
           {r \in lv : r = Target(c) \/ r.kind \notin {"glfw", "window"}}
      [] OTHER                        -> {Target(c)}

RECURSIVE After(_, _)
\* what is left of lv after the release calls
After(lv, calls) ==
    IF calls = <<>> THEN lv
    ELSE After(lv \ Dying(lv, Head(calls)), Tail(calls))

\* Impl::initWindow(): glfwInit and glfwCreateWindow succeed or fail; win is
\* the window created, 0 for nullptr
initWindow(h, lv, init_ok, win) ==
    IF ~init_ok
    THEN [handles |-> h, live |-> lv, made |-> {}, calls |-> <<>>,
          stopped |-> "glfwInit"]
    ELSE IF win = 0
    THEN [handles |-> [h EXCEPT !.window = 0],
          live |-> After(lv \cup {Res("glfw", 0)}, <<Call("glfwTerminate", 0)>>),
          made |-> {Res("glfw", 0)},
          calls |-> <<Call("glfwTerminate", 0)>>,
          stopped |-> "glfwCreateWindow"]
    ELSE [handles |-> [h EXCEPT !.window = win],
          live |-> lv \cup {Res("glfw", 0), Res("window", win)},
          made |-> {Res("glfw", 0), Res("window", win)},
          calls |-> <<>>,
          stopped |-> "none"]

\* Impl::createShaders(): vs, fs and prog are the names glCreateShader and
\* glCreateProgram return; `failure` is the step that reports failure
createShaders(h, lv, vs, fs, prog, failure) ==
    LET vertex   == {Res("shader", vs)}
        shaders  == {Res("shader", vs), Res("shader", fs)}
        program  == {Res("program", prog)}
    IN  CASE failure = "vertex shader" ->
               LET calls == <<Call("glDeleteShader", vs)>>
               IN  [handles |-> h, live |-> After(lv \cup vertex, calls),
                    made |-> vertex, calls |-> calls, stopped |-> failure]
          [] failure = "fragment shader" ->
               LET calls == <<Call("glDeleteShader", vs),
                              Call("glDeleteShader", fs)>>
               IN  [handles |-> h, live |-> After(lv \cup shaders, calls),
                    made |-> shaders, calls |-> calls, stopped |-> failure]
          [] failure = "link" ->
               LET calls == <<Call("glDeleteShader", vs),
                              Call("glDeleteShader", fs),
                              Call("glDeleteProgram", prog)>>
               IN  [handles |-> [h EXCEPT !.shader_program = prog],
                    live |-> After(lv \cup shaders \cup program, calls),
                    made |-> shaders \cup program, calls |-> calls,
                    stopped |-> failure]
          [] OTHER ->
               LET calls == <<Call("glDeleteShader", vs),
                              Call("glDeleteShader", fs)>>
               IN  [handles |-> [h EXCEPT !.shader_program = prog],
                    live |-> After(lv \cup shaders \cup program, calls),
                    made |-> shaders \cup program, calls |-> calls,
                    stopped |-> "none"]

\* the rest of Impl::initGL(): setupQuad() generates the vertex array va and
\* the buffer vb, glGenTextures the texture tex
initGL(h, lv, va, vb, tex) ==
    LET objects == {Res("vertex array", va), Res("buffer", vb),
                    Res("texture", tex)}
    IN  [handles |-> [h EXCEPT !.vao = va, !.vbo = vb, !.texture_id = tex],
         live |-> lv \cup objects, made |-> objects, calls |-> <<>>,
         stopped |-> "none"]

\* the release of one handle in cleanup, skipped when the handle is zero
ReleaseIfSet(name, handle) ==
    IF handle # 0 THEN <<Call(name, handle)>> ELSE <<>>

\* cleanup() releasing whatever the field holds, zero or not
cleanupUnguarded(h, lv) ==
    LET calls == <<Call("glDeleteTextures", h.texture_id),
                   Call("glDeleteVertexArrays", h.vao),
                   Call("glDeleteBuffers", h.vbo),
                   Call("glDeleteProgram", h.shader_program),
                   Call("glfwDestroyWindow", h.window),
                   Call("glfwTerminate", 0)>>
    IN  [handles |-> NoHandles, live |-> After(lv, calls), calls |-> calls]

\* cleanup() destroying the window before the objects of its context
cleanupWindowFirst(h, lv) ==
    LET calls == ReleaseIfSet("glfwDestroyWindow", h.window)
                 \o ReleaseIfSet("glDeleteTextures", h.texture_id)
                 \o ReleaseIfSet("glDeleteVertexArrays", h.vao)
                 \o ReleaseIfSet("glDeleteBuffers", h.vbo)
                 \o ReleaseIfSet("glDeleteProgram", h.shader_program)
                 \o <<Call("glfwTerminate", 0)>>
    IN  [handles |-> NoHandles, live |-> After(lv, calls), calls |-> calls]

\* Impl::cleanup()
cleanup(h, lv) ==
    LET calls == ReleaseIfSet("glDeleteTextures", h.texture_id)
                 \o ReleaseIfSet("glDeleteVertexArrays", h.vao)
                 \o ReleaseIfSet("glDeleteBuffers", h.vbo)
                 \o ReleaseIfSet("glDeleteProgram", h.shader_program)
                 \o ReleaseIfSet("glfwDestroyWindow", h.window)
                 \o <<Call("glfwTerminate", 0)>>
    IN  [handles |-> NoHandles, live |-> After(lv, calls), calls |-> calls]

\* one step of construction took place
Constructing(step, next_pc) ==
    /\ handles' = step.handles
    /\ live' = step.live
    /\ allocated' = allocated \cup step.made
    /\ released' = released \o step.calls
    /\ stage' = step.stopped
    /\ pc' = IF step.stopped = "none" THEN next_pc ELSE "failed"

\* everything but pc and the variables of construction and teardown
useVars ==
    <<rgb_buffer, texture, current_frame_header, image_aspect_ratio, vbo,
      framebuffer, should_close, last_frame, access, updates, before, sizing,
      passVars>>

\* impl_->initWindow() in Display::Display
InitWindow ==
    /\ pc = "initWindow"
    /\ \E init_ok \in BOOLEAN, win \in {0} \cup Handles :
         Constructing(initWindow(handles, live, init_ok, win), "createShaders")
    /\ UNCHANGED <<useVars, gl_log>>

\* createShaders() in impl_->initGL(); shaders and programs share their names
CreateShaders ==
    /\ pc = "createShaders"
    /\ \E vs \in Handles :
       \E fs \in Handles \ {vs} :
       \E prog \in Handles \ {vs, fs} :
       \E failure \in {"vertex shader", "fragment shader", "link", "none"} :
         Constructing(createShaders(handles, live, vs, fs, prog, failure),
                      "initGL")
    /\ UNCHANGED <<useVars, gl_log>>

\* the rest of impl_->initGL(), after which Display::Display returns
InitGL ==
    /\ pc = "initGL"
    /\ \E va \in Handles, vb \in Handles, tex \in Handles :
         Constructing(initGL(handles, live, va, vb, tex), "constructed")
    /\ UNCHANGED <<useVars, gl_log>>

\* cleanup() ran
CleanedUp(next_pc) ==
    LET done == cleanup(handles, live)
    IN  /\ handles' = done.handles
        /\ live' = done.live
        /\ released' = released \o done.calls
        /\ gl_log' = done.calls
        /\ pc' = next_pc
        /\ UNCHANGED <<allocated, stage, useVars>>

\* Display::~Display: runs for a Display whose constructor returned.  When
\* the constructor throws, the exception reaches the caller with impl_
\* freed and without this destructor.
Destructor ==
    /\ pc = "constructed"
    /\ CleanedUp("destroyed")

\* before Display::Display
InitLife ==
    /\ Idle
    /\ rgb_buffer = <<>>
    /\ last_frame = MakeFrame(FormatNone, 0, 0, 0, 0)
    /\ access = NoAccess
    /\ pc = "initWindow"

NextLife ==
    \/ InitWindow
    \/ CreateShaders
    \/ InitGL
    \/ Destructor

SpecLife == InitLife /\ [][NextLife]_vars

\* cleanup() on an Impl in whatever state construction left it, and again
Cleanup ==
    \/ /\ pc \in {"failed", "constructed"}
       /\ CleanedUp("cleaned")
    \/ /\ pc = "cleaned"
       /\ CleanedUp("cleaned again")

NextCleanup ==
    \/ InitWindow
    \/ CreateShaders
    \/ InitGL
    \/ Cleanup

SpecCleanup == InitLife /\ [][NextCleanup]_vars

-----------------------------------------------------------------------------
(* Spec: main()'s loop over a constructed Display: processEvents, then     *)
(* camera.acquire(), which hands a frame to update.  Between two updates   *)
(* the window may have been resized or minimized, and its close requested. *)

\* framebuffer sizes the window system reports: the initial one, a
\* minimized window, and small ones
FbSizes ==
    {<<DEFAULT_WIDTH, DEFAULT_HEIGHT>>} \cup ((0..MaxFb) \X (0..1))

DisplayFrames ==
    { MakeFrame(f, w, h, 0, 0) :
        f \in {FormatRGB888, FormatYUYV, FormatNone},
        w \in 0..MaxWidth, h \in 0..MaxHeight }

\* what the reads beyond the span and beyond the vector may find in this
\* update
GarbageFor(frame, rgb_data) ==
    LET mem == convertToRGB(frame, rgb_data, 0)
    IN  IF \/ \E i \in mem.reads : i >= Len(frame.pixels)
           \/ UploadUndefined(mem.rgb, frame.width, frame.height)
        THEN Garbage ELSE {0}

\* what a construction without failure leaves, the window system and the
\* context handing out their first names
Constructed ==
    LET win == initWindow(NoHandles, {}, TRUE, 1)
        sh  == createShaders(win.handles, win.live, 1, 2, 3, "none")
        gl  == initGL(sh.handles, sh.live, 1, 1, 1)
    IN  [handles |-> gl.handles, live |-> gl.live,
         allocated |-> win.made \cup sh.made \cup gl.made,
         released |-> win.calls \o sh.calls \o gl.calls]

\* the state Display::Display leaves
Init ==
    /\ handles = Constructed.handles
    /\ live = Constructed.live
    /\ allocated = Constructed.allocated
    /\ released = Constructed.released
    /\ stage = "none"
    /\ NoPass
    /\ rgb_buffer = <<>>
    /\ texture = uploadTexture(<<>>, 0, 0, 0)
    /\ current_frame_header = Header(MakeFrame(FormatNone, 0, 0, 0, 0))
    /\ image_aspect_ratio = FOne
    /\ vbo = setupQuad
    /\ framebuffer = <<DEFAULT_WIDTH, DEFAULT_HEIGHT>>
    /\ should_close = FALSE
    /\ pc = "poll"
    /\ last_frame = MakeFrame(FormatNone, 0, 0, 0, 0)
    /\ access = NoAccess
    /\ gl_log = <<>>
    /\ updates = 0
    /\ before = Snapshot
    /\ sizing = NotResized

\* processEvents answering from the close flag as it was before the poll
processEventsStale(closing, close_requested) ==
    [should_close |-> closing \/ close_requested, result |-> ~closing]

\* Display::processEvents: glfwPollEvents delivers the close request, if
\* there is one, and sets the window's close flag; the result is
\* glfwWindowShouldClose(window) == 0
processEvents(closing, close_requested) ==
    LET flag == closing \/ close_requested
    IN  [should_close |-> flag, result |-> ~flag]

\* Display::processEvents in the condition of main's loop
ProcessEvents ==
    /\ pc = "poll"
    /\ \E close_requested \in BOOLEAN :
         LET polled == processEvents(should_close, close_requested)
         IN  /\ should_close' = polled.should_close
             /\ pc' = IF polled.result THEN "acquire" ELSE "exited"
    /\ UNCHANGED <<rgb_buffer, texture, current_frame_header, image_aspect_ratio,
                   vbo, framebuffer, last_frame, access, gl_log, updates, before,
                   sizing>>
    /\ UNCHANGED <<lifeVars, passVars>>

\* NewAspectRatio going back to 1.0 on a frame without pixels
NewAspectRatioReset(frame, ratio) ==
    IF frame.width > 0 /\ frame.height > 0
    THEN FDiv(IntToFloat(frame.width), IntToFloat(frame.height))
    ELSE FOne

\* the stored ratio after the width > 0 && height > 0 test of update
NewAspectRatio(frame, ratio) ==
    IF frame.width > 0 /\ frame.height > 0
    THEN FDiv(IntToFloat(frame.width), IntToFloat(frame.height))
    ELSE ratio

\* how many of the calls are calls of `name`
Count(calls, name) ==
    Cardinality({i \in DOMAIN calls : calls[i].call = name})

\* Display::update(frame), called back from camera.acquire(), while the
\* window system reports `window` as the framebuffer size.  Undefined
\* behaviour in the conversion or in the upload either goes unnoticed or ends
\* the process there (a checked operator[], a fault).
Update ==
    /\ pc = "acquire"
    /\ updates < MaxUpdates
    /\ \E frame \in DisplayFrames, window \in FbSizes :
       \E garbage \in GarbageFor(frame, rgb_buffer) :
         LET mem   == convertToRGB(frame, rgb_buffer, garbage)
             tex   == uploadTexture(mem.rgb, frame.width, frame.height, garbage)
             ratio == NewAspectRatio(frame, image_aspect_ratio)
             pass  == render(window, ratio, vbo, tex)
         IN  /\ last_frame' = frame
             /\ rgb_buffer' = mem.rgb
             /\ access' = Accesses(mem)
             /\ updates' = updates + 1
             /\ before' = Snapshot
             /\ \/ /\ texture' = tex
                   /\ image_aspect_ratio' = ratio
                   /\ current_frame_header' = Header(frame)
                   /\ vbo' = pass.vbo
                   /\ framebuffer' = window
                   /\ gl_log' = <<Call("convertToRGB", Header(frame)),
                                  Call("glTexImage2D", tex)>>
                                \o pass.calls
                   /\ draws' = draws + Count(pass.calls, "glDrawArrays")
                   /\ swaps' = swaps + Count(pass.calls, "glfwSwapBuffers")
                   /\ sized' = IF frame.width > 0 /\ frame.height > 0
                                THEN <<frame.width, frame.height>>
                                ELSE sized
                   /\ pc' = "poll"
                \/ /\ Undefined(frame, mem)
                   /\ gl_log' = <<Call("convertToRGB", Header(frame))>>
                   /\ pc' = "aborted"
                   /\ UNCHANGED <<texture, image_aspect_ratio,
                                  current_frame_header, vbo, framebuffer,
                                  passVars>>
                \/ /\ UploadUndefined(mem.rgb, frame.width, frame.height)
                   /\ gl_log' = <<Call("convertToRGB", Header(frame)),
                                  Call("glTexImage2D", tex)>>
                   /\ pc' = "aborted"
                   /\ UNCHANGED <<texture, image_aspect_ratio,
                                  current_frame_header, vbo, framebuffer,
                                  passVars>>
    /\ UNCHANGED <<should_close, sizing, lifeVars>>

Next ==
    \/ ProcessEvents
    \/ Update

Spec == Init /\ [][Next]_vars

-----------------------------------------------------------------------------
(* Properties of update *)

\* the names of the calls of the last update, in order
CallNames == [i \in 1..Len(gl_log) |-> gl_log[i].call]

Minimized(window) == window[1] = 0 \/ window[2] = 0

\* the last update returned
Returned == updates > 0 /\ pc # "aborted"

\* conversion, upload, then the render pass and the swap
FullUpdate ==
    <<"convertToRGB", "glTexImage2D", "glViewport", "glClear",
      "updateQuadForLetterbox">>
    \o (IF Minimized(framebuffer) THEN <<>> ELSE <<"glBufferSubData">>)
    \o <<"glDrawArrays", "glfwSwapBuffers">>

\* C1: in every call of update, for every frame, the calls are, in this
\* order and each once: the conversion, the texture upload of the converted
\* buffer, the render pass (viewport, clear, geometry recomputation, draw) and
\* the buffer swap; and the draw samples the texture uploaded from the frame
\* of this call.
C1_UpdateOrder ==
    (updates > 0) =>
        /\ CallNames = FullUpdate
        /\ gl_log[1].arg = Header(last_frame)
        /\ \E garbage \in Garbage :
             gl_log[2].arg = uploadTexture(rgb_buffer, last_frame.width,
                                           last_frame.height, garbage)
        /\ gl_log[Len(gl_log) - 1].arg.texture = gl_log[2].arg
        /\ texture = gl_log[2].arg

Magenta(rgb_data) ==
    /\ Len(rgb_data) % 3 = 0
    /\ \A i \in 1..Len(rgb_data) : rgb_data[i] = (IF i % 3 = 2 THEN 0 ELSE 255)

Recognized(format) == format \in {FormatRGB888, FormatYUYV}

\* C4: after an update with a frame whose format is neither RGB888 nor YUYV,
\* of any size, the buffer has width * height * 3 bytes and every pixel is
\* (255, 0, 255); the update returned, having uploaded that buffer as the
\* texture, recorded the header, rendered and swapped; and the next update
\* with an RGB888 or YUYV frame (and a conversion of defined behaviour) gives
\* what it gives on a new Display.
C4_UnknownFormat ==
    /\ (updates > 0 /\ ~Recognized(last_frame.format)) =>
        /\ pc # "aborted"
        /\ Len(rgb_buffer) = last_frame.width * last_frame.height * 3
        /\ Magenta(rgb_buffer)
        /\ \E garbage \in Garbage :
             texture = uploadTexture(rgb_buffer, last_frame.width,
                                     last_frame.height, garbage)
        /\ current_frame_header = Header(last_frame)
        /\ CallNames = FullUpdate
    /\ (updates > 1 /\ ~Recognized(before.current_frame_header.format)
          /\ Recognized(last_frame.format)
          /\ ~Undefined(last_frame, convertToRGB(last_frame, <<>>, 0))) =>
        /\ pc # "aborted"
        /\ rgb_buffer = convertToRGB(last_frame, <<>>, 0).rgb
        /\ \E garbage \in Garbage :
             texture = uploadTexture(rgb_buffer, last_frame.width,
                                     last_frame.height, garbage)
        /\ current_frame_header = Header(last_frame)
        /\ CallNames = FullUpdate

\* an update with a frame of unknown format and two pixels returned
C4_Witness ==
    /\ updates > 0
    /\ pc = "poll"
    /\ last_frame.format = FormatNone
    /\ last_frame.width * last_frame.height = 2
    /\ rgb_buffer = <<255, 0, 255, 255, 0, 255>>
    /\ texture.pixels = rgb_buffer
    /\ CallNames = FullUpdate

\* r is a binary32 value nearest to width / height
NearestFloat(r, width, height) ==
    LET scaled == width * 2^(0 - r.e)
    IN  /\ 2 * r.m * height - 2 * scaled <= height
        /\ 2 * scaled - 2 * r.m * height <= height

\* C7: after update(frame) with width > 0 and height > 0 the stored aspect
\* ratio is width / height of that frame (the binary32 quotient); after
\* update(frame) with width = 0 or height = 0 it is what it was before the
\* call; and it is always strictly positive.
C7_AspectRatio ==
    /\ image_aspect_ratio.m > 0
    /\ Returned =>
         IF last_frame.width > 0 /\ last_frame.height > 0
         THEN NearestFloat(image_aspect_ratio, last_frame.width, last_frame.height)
         ELSE image_aspect_ratio = before.image_aspect_ratio

\* a frame without pixels came after a frame that is twice as wide as high
C7_Witness ==
    /\ Returned
    /\ updates = 2
    /\ last_frame.width = 0 \/ last_frame.height = 0
    /\ image_aspect_ratio = IntToFloat(2)
    /\ before.current_frame_header.width = 2
    /\ before.current_frame_header.height = 1

\* C9: a render pass in a window whose width or height is 0 leaves the vertex
\* buffer as it was before the pass (the unit quad, if no pass wrote it yet),
\* and a later pass in a window of non-zero size writes the letterbox quad of
\* that size.
C9_MinimizedKeepsQuad ==
    Returned =>
        /\ IF Minimized(framebuffer)
           THEN /\ vbo = before.vbo
                /\ \A i \in 1..Len(gl_log) : gl_log[i].call # "glBufferSubData"
           ELSE /\ vbo = LET q == QuadExtents(framebuffer, image_aspect_ratio)
                        IN  QuadVertices(q[1], q[2])
                /\ \E i \in 1..Len(gl_log) :
                     gl_log[i].call = "glBufferSubData" /\ gl_log[i].arg = vbo
        /\ (updates = 1 /\ Minimized(framebuffer)) => (vbo = setupQuad)

\* a pass in a minimized window was followed by a pass in a window of
\* non-zero size, which narrowed the quad
C9_Witness ==
    /\ Returned
    /\ updates = 2
    /\ Minimized(before.framebuffer)
    /\ before.vbo = setupQuad
    /\ ~Minimized(framebuffer)
    /\ vbo # before.vbo

\* C10 as stated: in an update during which the framebuffer size is (0, 0),
\* no clear, no draw and no buffer swap is issued, and no error is raised.
C10_MinimizedSkipsPass ==
    (Returned /\ framebuffer = <<0, 0>>) =>
        \A i \in 1..Len(gl_log) :
            gl_log[i].call \notin {"glClear", "glDrawArrays", "glfwSwapBuffers"}

\* C10, amended: in an update during which the framebuffer size is (0, 0),
\* only the write of the vertex buffer is skipped; the viewport is set to
\* (0, 0), and the clear, the draw and the buffer swap are issued as in any
\* other pass; the size raises no error.
C10_MinimizedSkipsWrite ==
    (Returned /\ framebuffer = <<0, 0>>) =>
        /\ CallNames = <<"convertToRGB", "glTexImage2D", "glViewport", "glClear",
                         "updateQuadForLetterbox", "glDrawArrays",
                         "glfwSwapBuffers">>
        /\ gl_log[3].arg = <<0, 0>>
        /\ vbo = before.vbo

\* an update in a window of size (0, 0) drew and swapped
C10_Witness ==
    /\ Returned
    /\ framebuffer = <<0, 0>>
    /\ \E i \in 1..Len(gl_log) : gl_log[i].call = "glDrawArrays"
    /\ gl_log[Len(gl_log)].call = "glfwSwapBuffers"

\* the positions of the calls of `name` in the last update
Positions(name) == {i \in DOMAIN gl_log : gl_log[i].call = name}

\* the last update cleared, drew and presented once each, in this order
OneCycle ==
    /\ Cardinality(Positions("glClear")) = 1
    /\ Cardinality(Positions("glDrawArrays")) = 1
    /\ Cardinality(Positions("glfwSwapBuffers")) = 1
    /\ \A c \in Positions("glClear"), d \in Positions("glDrawArrays"),
          p \in Positions("glfwSwapBuffers") : c < d /\ d < p

\* C11: every call of update performs exactly one clear-draw-present cycle,
\* whatever the frame and the framebuffer size: after n calls of update
\* exactly n draw calls and n presents have been issued, and none of them by
\* processEvents
C11_CyclePerUpdate ==
    /\ draws = updates
    /\ swaps = updates
    /\ updates > 0 => OneCycle

\* the same of the calls of update that returned
C11_CyclePerReturn ==
    LET returned == IF pc = "aborted" THEN updates - 1 ELSE updates
    IN  /\ draws = returned
        /\ swaps = returned
        /\ Returned => OneCycle

-----------------------------------------------------------------------------
(* Properties of construction and teardown                                 *)

\* the steps at which construction can stop, "none" for full success
StopPoints ==
    {"glfwInit", "glfwCreateWindow", "vertex shader", "fragment shader",
     "link", "none"}

\* the handle releases among the calls of the last cleanup
HandleReleases == {i \in DOMAIN gl_log : gl_log[i].call # "glfwTerminate"}

\* C12: wherever construction stopped (subsystem initialization, window
\* creation, vertex shader, fragment shader, link, or not at all), cleanup
\* on the instance in that state releases only handles that were allocated
\* in that construction, and none that never was
C12_ReleasesOnlyAllocated ==
    pc \in {"cleaned", "cleaned again"} =>
        /\ stage \in StopPoints
        /\ \A i \in HandleReleases :
             /\ gl_log[i].arg # 0
             /\ Target(gl_log[i]) \in allocated

\* cleanup after a vertex shader that did not compile: the window is the one
\* handle there is, and the one released
C12_Witness ==
    /\ pc = "cleaned"
    /\ stage = "vertex shader"
    /\ Len(gl_log) = 2
    /\ gl_log[1].call = "glfwDestroyWindow"
    /\ Target(gl_log[1]) \in allocated
    /\ gl_log[2].call = "glfwTerminate"

\* how often the release calls so far name resource r
ReleaseCount(r) ==
    Cardinality({i \in DOMAIN released : Target(released[i]) = r})

\* the handles of a Display: texture, vertex array, vertex buffer, shader
\* program and window
HandleKinds == {"texture", "vertex array", "buffer", "program", "window"}

\* the life of the Display is over: its constructor threw, or its destructor
\* ran
LifeOver == pc \in {"failed", "destroyed"}

\* C13: over the life of a Display every handle is released exactly once, on
\* the failure paths of construction as well as after a construction that
\* succeeded
C13_ReleasedOnce ==
    LifeOver =>
        \A r \in allocated : r.kind \in HandleKinds => ReleaseCount(r) = 1

\* no handle is released more than once over the life of a Display
C13_NeverReleasedTwice ==
    \A r \in allocated : r.kind \in HandleKinds => ReleaseCount(r) <= 1

\* a cleanup that follows a cleanup releases no handle
C13_SecondCleanupIdle ==
    pc = "cleaned again" => HandleReleases = {}

\* cleanup on the state construction stopped in releases no handle that a
\* failure path of construction has released
C13_CleanupAfterFailure ==
    pc = "cleaned" =>
        \A r \in allocated : r.kind \in HandleKinds => ReleaseCount(r) <= 1

\* the place of a release call in the order of shutdown
Rank(c) ==
    CASE c.call = "glDeleteTextures"     -> 1
      [] c.call = "glDeleteVertexArrays" -> 2
      [] c.call = "glDeleteBuffers"      -> 2
      [] c.call = "glDeleteProgram"      -> 3
      [] c.call = "glfwDestroyWindow"    -> 4
      [] OTHER                           -> 5

\* C14: shutdown releases the texture first, then the vertex array and the
\* vertex buffer, then the shader program, then the window, and tears the
\* graphics subsystem down last: no object of the context is released after
\* the window is destroyed
C14_ShutdownOrder ==
    pc = "destroyed" =>
        /\ \A i, j \in DOMAIN gl_log :
             i < j => Rank(gl_log[i]) <= Rank(gl_log[j])
        /\ {Target(gl_log[i]) : i \in HandleReleases}
             = {r \in allocated : r.kind \in HandleKinds}
        /\ gl_log # <<>>
        /\ gl_log[Len(gl_log)].call = "glfwTerminate"
        /\ \A i \in HandleReleases : i < Len(gl_log)

\* the destructor released five handles and then the subsystem
C14_Witness ==
    /\ pc = "destroyed"
    /\ Len(gl_log) = 6
    /\ gl_log[1].call = "glDeleteTextures"
    /\ gl_log[5].call = "glfwDestroyWindow"
    /\ live = {}

\* the handle names a resource that exists
Valid(kind, handle) == handle # 0 /\ Res(kind, handle) \in live

\* C16: construction is all-or-nothing: when the constructor fails, then at
\* the moment the error reaches the caller every resource created during
\* that construction (shaders, program, window, the initialized subsystem)
\* has been released; when it succeeds, the shader program, the vertex
\* buffer and the texture are valid
C16_AllOrNothing ==
    /\ pc = "failed" => live = {}
    /\ pc = "constructed" =>
         /\ Valid("program", handles.shader_program)
         /\ Valid("buffer", handles.vbo)
         /\ Valid("texture", handles.texture_id)

\* the same with the window and the subsystem left out: the objects that
\* createShaders creates are released when it fails
C16_ShadersReleased ==
    /\ pc = "failed" =>
         \A r \in live : r.kind \in {"glfw", "window"}
    /\ pc = "failed" /\ stage \in {"glfwInit", "glfwCreateWindow"} => live = {}
    /\ pc = "constructed" =>
         /\ Valid("program", handles.shader_program)
         /\ Valid("buffer", handles.vbo)
         /\ Valid("texture", handles.texture_id)

-----------------------------------------------------------------------------
(* Properties of processEvents and of main's loop                          *)

\* a call of processEvents: it returns false exactly when the close flag is
\* set after the poll, and leaves the frame header, the aspect ratio, the
\* texture and the quad as they were
PollStep ==
    pc = "poll" =>
        /\ pc' \in {"acquire", "exited"}
        /\ (pc' = "exited") <=> should_close'
        /\ UNCHANGED <<current_frame_header, image_aspect_ratio, texture, vbo,
                       rgb_buffer, passVars>>

\* update is called only after a processEvents that returned true
AcquireStep ==
    updates' # updates => pc = "acquire" /\ ~should_close

\* the loop ends at the first processEvents that returns false
ExitStep ==
    pc = "exited" => UNCHANGED vars

\* C15: processEvents drains the pending events and returns false exactly
\* when a close request has been observed; it never blocks and never changes
\* the frame header, the aspect ratio, the texture or the quad; main's loop
\* calls acquire, and so update, only after a processEvents that returned
\* true, and ends at the first one that returns false
C15_PollGatesLoop ==
    /\ [](pc = "poll" => ENABLED ProcessEvents)
    /\ [](should_close <=> pc = "exited")
    /\ [][PollStep /\ AcquireStep /\ ExitStep]_vars

\* the loop ran one update and ended when the close request arrived
C15_Witness ==
    /\ pc = "exited"
    /\ should_close
    /\ updates = 1
    /\ draws = 1

-----------------------------------------------------------------------------
(* Properties of the quad at the draw call                                 *)

\* the aspect ratio of the most recent frame with pixels, 1.0 if none
ShownRatio ==
    IF sized = <<0, 0>> THEN FOne
    ELSE FDiv(IntToFloat(sized[1]), IntToFloat(sized[2]))

\* the letterbox quad of the framebuffer size of the last pass: positions
\* (-qw, qh), (-qw, -qh), (qw, -qh), (qw, qh) with the texture coordinates
\* (0, 0), (0, 1), (1, 1), (1, 0)
LetterboxQuad ==
    LET q  == QuadExtents(framebuffer, ShownRatio)
        qw == q[1]
        qh == q[2]
    IN  << FNeg(qw), qh,       FZero, FZero,
           FNeg(qw), FNeg(qh), FZero, FOne,
           qw,       FNeg(qh), FOne,  FOne,
           qw,       qh,       FOne,  FZero >>

\* C17: at every draw call issued while the framebuffer size is non-zero the
\* vertex buffer holds exactly the letterbox quad computed from the
\* framebuffer size read in that pass and from the aspect ratio of the most
\* recent frame with pixels, the one being drawn included (1.0 if there is
\* none); it depends on nothing else, so two recomputations in a row with the
\* same surface size and ratio give the same vertex data
C17_DrawnQuad ==
    (Returned /\ ~Minimized(framebuffer)) =>
        /\ vbo = LetterboxQuad
        /\ \A i \in Positions("glDrawArrays") :
             gl_log[i].arg.vertices = LetterboxQuad
        /\ (/\ updates >= 2
            /\ framebuffer = before.framebuffer
            /\ image_aspect_ratio = before.image_aspect_ratio)
           => vbo = before.vbo

\* a frame without pixels was drawn with the quad of the frame before it
C17_Witness ==
    /\ Returned
    /\ updates = 2
    /\ ~Minimized(framebuffer)
    /\ last_frame.width = 0
    /\ sized # <<0, 0>>
    /\ vbo # setupQuad
    /\ vbo = before.vbo
    /\ Positions("glDrawArrays") # {}

====
